---- MODULE Spec2Model ----
(***************************************************************************)
(* Model of plugins/modules/getent.py: one invocation of the getent        *)
(* module.  The script binds its parameters, resolves the getent binary,   *)
(* builds the command, defaults the separator, runs the command once and   *)
(* dispatches on the exit code.                                            *)
(*                                                                         *)
(* Encoding of Python values.  A Python str that the script takes apart    *)
(* (stdout, key, split, the parsed fields) is a sequence of one-character  *)
(* strings, so "" is << >>.  A value that may be None is boxed: None is    *)
(* << >> and a present value x is << x >>.  Names that the script only     *)
(* passes around (database, the binary's path, messages) are strings.      *)
(***************************************************************************)
EXTENDS Integers, Sequences, FiniteSets, TLC

\* ---------------------------------------------------------------- bounds
MaxLen == 3
MaxRc == 4

\* ------------------------------------------------------- Python encoding
None == << >>
Some(x) == << x >>
Val(o) == o[1]

Chars == {"a", ":", " ", "\n"}
Whitespace == {" ", "\t", "\n", "\r", "\f"}
LineBreaks == {"\n", "\r", "\f"}

RECURSIVE StrsUpTo(_)
StrsUpTo(n) ==
  IF n = 0 THEN {<< >>}
  ELSE LET shorter == StrsUpTo(n - 1)
       IN shorter \cup {Append(s, c) : s \in {t \in shorter : Len(t) = n - 1}, c \in Chars}

\* ------------------------------------------------------ inputs of a run
Databases == {"passwd", "shadow", "group", "gshadow", "hosts", "services"}
Keys == {None, Some(<< >>), Some(<<"a">>)}
Splits == {None, Some(<<":">>), Some(<<" ">>), Some(<< >>)}
BinPaths == {"/usr/bin/getent", "/bin/getent"}
Rcs == (-1)..MaxRc
Outs == StrsUpTo(MaxLen)
Excs == {[type |-> "OSError", text |-> "[Errno 13] Permission denied"],
         [type |-> "OSError", text |-> "[Errno 8] Exec format error"]}

\* ------------------------------------------------------ str.splitlines()
\* Index of the first line boundary of s, 0 when there is none.
FirstBreak(s) ==
  IF \E i \in 1..Len(s) : s[i] \in LineBreaks
  THEN CHOOSE i \in 1..Len(s) : s[i] \in LineBreaks /\ \A j \in 1..(i - 1) : s[j] \notin LineBreaks
  ELSE 0

RECURSIVE splitlines(_)
splitlines(s) ==
  IF s = << >> THEN << >>
  ELSE LET i == FirstBreak(s)
       IN IF i = 0 THEN << s >>
          ELSE LET crlf == s[i] = "\r" /\ i < Len(s) /\ s[i + 1] = "\n"
                   next == IF crlf THEN i + 2 ELSE i + 1
               IN << SubSeq(s, 1, i - 1) >> \o splitlines(SubSeq(s, next, Len(s)))

\* ------------------------------------------------------------ str.split()
\* Index of the first occurrence of sep in s, 0 when there is none.
Find(s, sep) ==
  LET at(i) == SubSeq(s, i, i + Len(sep) - 1) = sep
      last == Len(s) - Len(sep) + 1
  IN IF \E i \in 1..last : at(i)
     THEN CHOOSE i \in 1..last : at(i) /\ \A j \in 1..(i - 1) : ~at(j)
     ELSE 0

\* s.split(sep) for a non-empty sep: every occurrence cuts, empty fields stay.
RECURSIVE SplitSep(_, _)
SplitSep(s, sep) ==
  LET i == Find(s, sep)
  IN IF i = 0 THEN << s >>
     ELSE << SubSeq(s, 1, i - 1) >> \o SplitSep(SubSeq(s, i + Len(sep), Len(s)), sep)

\* s.split(None): runs of whitespace cut, no empty field, "" gives [].
RECURSIVE SplitWs(_)
SplitWs(s) ==
  IF s = << >> THEN << >>
  ELSE IF s[1] \in Whitespace THEN SplitWs(Tail(s))
  ELSE LET stop == IF \E i \in 1..Len(s) : s[i] \in Whitespace
                   THEN (CHOOSE i \in 1..Len(s) :
                           s[i] \in Whitespace /\ \A j \in 1..(i - 1) : s[j] \notin Whitespace)
                   ELSE Len(s) + 1
       IN << SubSeq(s, 1, stop - 1) >> \o SplitWs(SubSeq(s, stop, Len(s)))

\* line.split(split): the fields, or the exception str.split raises.
PySplit(line, sp) ==
  IF sp = None THEN [raised |-> None, fields |-> SplitWs(line)]
  ELSE IF Val(sp) = << >> THEN [raised |-> Some("ValueError"), fields |-> << >>]
  ELSE [raised |-> None, fields |-> SplitSep(line, Val(sp))]

\* ------------------------------------------------------------ the script
colon == {"passwd", "shadow", "group", "gshadow"}

\* lines 113-116; CmdKeyTruthy is the variant that tests `if key:`
CmdKeyTruthy(bin, db, k) ==
  IF k # None /\ Val(k) # << >> THEN << bin, db, Val(k) >> ELSE << bin, db >>

BuildCmd(bin, db, k) ==
  IF k # None THEN << bin, db, Val(k) >> ELSE << bin, db >>

\* lines 118-119; DefaultSplitAlways is the variant without `split is None`
DefaultSplitAlways(sp, db) ==
  IF db \in colon THEN Some(<<":">>) ELSE sp

DefaultSplit(sp, db) ==
  IF sp = None /\ db \in colon THEN Some(<<":">>) ELSE sp

\* line 124: the keyword arguments of fail_json in the except clause;
\* to_native(e) is the text of e, format_exc() ends with its type and text;
\* ExceptKwargsGeneric is the variant that reports the generic message
ExceptKwargsGeneric(e) ==
  ("msg" :> "Unexpected failure!") @@ ("exception" :> "Traceback (most recent call last): " \o e.type)

ExceptKwargs(e) ==
  ("msg" :> e.text) @@
  ("exception" :> "Traceback (most recent call last): " \o e.type \o ": " \o e.text)

\* lines 126, 137-145: msg as the if/elif chain leaves it;
\* MsgForNoEnum is the variant without the rc == 3 branch
MsgForNoEnum(r) ==
  IF r = 1 THEN "Missing arguments, or database unknown."
  ELSE IF r = 2 THEN "One or more supplied key could not be found in the database."
  ELSE "Unexpected failure!"

MsgFor(r) ==
  IF r = 1 THEN "Missing arguments, or database unknown."
  ELSE IF r = 2 THEN "One or more supplied key could not be found in the database."
  ELSE IF r = 3 THEN "Enumeration not supported on this database."
  ELSE "Unexpected failure!"

\* line 127
DbTree(db) == "getent_" \o db

\* a dict and d[k] = v
EmptyDict == [k \in {} |-> None]
DictSet(d, k, v) == [x \in (DOMAIN d) \cup {k} |-> IF x = k THEN v ELSE d[x]]

\* line 128
NewResults(db, tree) == ("collection" :> TRUE) @@ (DbTree(db) :> tree)

\* lines 131-133: the loop over the lines, from tree; stops at the first raise
\* (split('') raises ValueError, record[0] of an empty record IndexError);
\* ParseFirstWins is the variant that keeps an existing entry
RECURSIVE ParseFirstWins(_, _, _)
ParseFirstWins(lines, sp, tree) ==
  IF lines = << >> THEN [raised |-> None, tree |-> tree]
  ELSE LET record == PySplit(Head(lines), sp)
       IN IF record.raised # None THEN [raised |-> record.raised, tree |-> tree]
          ELSE IF record.fields = << >> THEN [raised |-> Some("IndexError"), tree |-> tree]
          ELSE IF Some(record.fields[1]) \in DOMAIN tree
               THEN ParseFirstWins(Tail(lines), sp, tree)
               ELSE ParseFirstWins(Tail(lines), sp,
                                   DictSet(tree, Some(record.fields[1]), Some(Tail(record.fields))))

RECURSIVE ParseLines(_, _, _)
ParseLines(lines, sp, tree) ==
  IF lines = << >> THEN [raised |-> None, tree |-> tree]
  ELSE LET record == PySplit(Head(lines), sp)
       IN IF record.raised # None THEN [raised |-> record.raised, tree |-> tree]
          ELSE IF record.fields = << >> THEN [raised |-> Some("IndexError"), tree |-> tree]
          ELSE ParseLines(Tail(lines), sp,
                          DictSet(tree, Some(record.fields[1]), Some(Tail(record.fields))))

\* lines 139-141: the exit code 2 branch that does not fail;
\* KeyMissingIgnored is the variant that does not read fail_key
KeyMissingIgnored(r, fk) == r = 2

KeyMissingTolerated(r, fk) == r = 2 /\ ~fk

\* line 142; KeyMissingTreeParsed is the variant that parses stdout first
KeyMissingTreeParsed(k, o, sp) ==
  DictSet(ParseLines(splitlines(o), sp, EmptyDict).tree, k, None)

KeyMissingTree(k, o, sp) == DictSet(EmptyDict, k, None)

\* ----------------------------------------------------------------- state
VARIABLES
  params,      \* module.params, as AnsibleModule built it (lines 94-102)
  on_path,     \* what the search path resolves getent to, boxed (the environment)
  database,    \* line 106
  key,         \* line 107
  split,       \* line 108, reassigned at line 119
  fail_key,    \* line 109
  getent_bin,  \* line 111, boxed
  cmd,         \* lines 113-116, << >> until built
  rc,          \* line 122, boxed
  out,         \* line 122
  e,           \* line 123, the exception run_command raised, boxed
  pc,          \* the statement the script is at
  calls,       \* the exit_json / fail_json calls made, in order
  spawned,     \* the argument lists run_command was called with, in order
  uncaught     \* the exception that left the script, boxed

vars == << params, on_path, database, key, split, fail_key, getent_bin, cmd, rc, out,
           e, pc, calls, spawned, uncaught >>

Call(fn, kwargs) == [fn |-> fn, kwargs |-> kwargs]

\* the message of get_bin_path's fail_json
NotFoundMsg == "Failed to find required executable getent"

\* lines 94-109: the module is built and the four parameters are read
Init ==
  /\ params \in [database : Databases, key : Keys, split : Splits, fail_key : BOOLEAN]
  /\ on_path \in {None} \cup {Some(p) : p \in BinPaths}
  /\ database = params.database
  /\ key = params.key
  /\ split = params.split
  /\ fail_key = params.fail_key
  /\ getent_bin = None
  /\ cmd = << >>
  /\ rc = None
  /\ out = << >>
  /\ e = None
  /\ pc = "get_bin_path"
  /\ calls = << >>
  /\ spawned = << >>
  /\ uncaught = None

\* line 111, get_bin_path('getent', True): the path found on the search
\* path, or fail_json (which exits) when no directory of it has the executable;
\* GetBinPathFallback is the variant that goes on with the bare name
GetBinPathFallback ==
  /\ pc = "get_bin_path"
  /\ getent_bin' = IF on_path # None THEN on_path ELSE Some("getent")
  /\ pc' = "build_cmd"
  /\ UNCHANGED << params, on_path, database, key, split, fail_key, cmd, rc, out, e, calls, spawned, uncaught >>

GetBinPath ==
  /\ pc = "get_bin_path"
  /\ \/ /\ on_path # None
        /\ getent_bin' = on_path
        /\ pc' = "build_cmd"
        /\ UNCHANGED calls
     \/ /\ on_path = None
        /\ calls' = Append(calls, Call("fail_json", "msg" :> NotFoundMsg))
        /\ pc' = "done"
        /\ UNCHANGED getent_bin
  /\ UNCHANGED << params, on_path, database, key, split, fail_key, cmd, rc, out, e, spawned, uncaught >>

\* lines 113-116
Cmd ==
  /\ pc = "build_cmd"
  /\ cmd' = BuildCmd(Val(getent_bin), database, key)
  /\ pc' = "default_split"
  /\ UNCHANGED << params, on_path, database, key, split, fail_key, getent_bin, rc, out, e, calls, spawned, uncaught >>

\* lines 118-119
Split ==
  /\ pc = "default_split"
  /\ split' = DefaultSplit(split, database)
  /\ pc' = "run_command"
  /\ UNCHANGED << params, on_path, database, key, fail_key, getent_bin, cmd, rc, out, e, calls, spawned, uncaught >>

\* lines 121-124: run_command returns (rc, out, err), err is never read;
\* or it raises and the except clause calls fail_json, which exits
RunCommand ==
  /\ pc = "run_command"
  /\ spawned' = Append(spawned, cmd)
  /\ \/ /\ \E r \in Rcs, o \in Outs : rc' = Some(r) /\ out' = o
        /\ pc' = "dispatch"
        /\ UNCHANGED << e, calls >>
     \/ /\ \E x \in Excs : e' = Some(x) /\ calls' = Append(calls, Call("fail_json", ExceptKwargs(x)))
        /\ pc' = "done"
        /\ UNCHANGED << rc, out >>
  /\ UNCHANGED << params, on_path, database, key, split, fail_key, getent_bin, cmd, uncaught >>

\* lines 126-147: the exit-code dispatch; exit_json and fail_json exit
Dispatch ==
  /\ pc = "dispatch"
  /\ LET r == Val(rc)
         msg == MsgFor(r)
     IN \/ /\ r = 0
           /\ LET parsed == ParseLines(splitlines(out), split, EmptyDict)
              IN IF parsed.raised # None
                 THEN uncaught' = parsed.raised /\ UNCHANGED calls
                 ELSE /\ calls' = Append(calls, Call("exit_json", NewResults(database, parsed.tree)))
                      /\ UNCHANGED uncaught
        \/ /\ r # 0
           /\ KeyMissingTolerated(r, fail_key)
           /\ calls' = Append(calls, Call("exit_json",
                         ("results" :> NewResults(database, KeyMissingTree(key, out, split)))
                         @@ ("msg" :> msg)))
           /\ UNCHANGED uncaught
        \/ /\ r # 0
           /\ ~KeyMissingTolerated(r, fail_key)
           /\ calls' = Append(calls, Call("fail_json", "msg" :> msg))
           /\ UNCHANGED uncaught
  /\ pc' = "done"
  /\ UNCHANGED << params, on_path, database, key, split, fail_key, getent_bin, cmd, rc, out, e, spawned >>

Next == GetBinPath \/ Cmd \/ Split \/ RunCommand \/ Dispatch

Spec == Init /\ [][Next]_vars

\* ---------------------------------------------------------------- claims
Done == pc = "done"
Returned(r) == rc = Some(r)
OneCall(fn) == Len(calls) = 1 /\ calls[1].fn = fn
FailedWith(m) == calls = << Call("fail_json", "msg" :> m) >> /\ uncaught = None

\* C1: once run_command has returned an exit code other than 0 and 2, the
\* invocation ends with exactly one fail_json whose msg depends on rc alone:
\* 1 and 3 give their fixed messages, every other code "Unexpected failure!";
\* no exit_json is called, whatever fail_key, database, key, split and stdout.
C1_ExitCodeFailure ==
  (Done /\ rc # None /\ Val(rc) \notin {0, 2}) =>
    FailedWith(CASE Val(rc) = 1 -> "Missing arguments, or database unknown."
                 [] Val(rc) = 3 -> "Enumeration not supported on this database."
                 [] OTHER -> "Unexpected failure!")

C1_Witness ==
  /\ Done /\ Returned(3) /\ ~fail_key /\ out # << >>
  /\ FailedWith("Enumeration not supported on this database.")

\* C2: exit code 2 with fail_key true ends with exactly one fail_json whose
\* msg is the key-not-found message, and with no exit_json.
C2_KeyMissingFails ==
  (Done /\ Returned(2) /\ fail_key) =>
    FailedWith("One or more supplied key could not be found in the database.")

C2_Witness ==
  /\ Done /\ Returned(2) /\ fail_key /\ key = Some(<<"a">>)
  /\ OneCall("fail_json")

\* C3: exit code 2 with fail_key false never fails: the invocation ends with
\* one exit_json carrying a non-empty msg and results = {collection: True,
\* getent_<database>: {key: None}}, stdout left unparsed.
C3_KeyMissingTolerated ==
  (Done /\ Returned(2) /\ ~fail_key) =>
    /\ OneCall("exit_json")
    /\ uncaught = None
    /\ DOMAIN calls[1].kwargs = {"results", "msg"}
    /\ calls[1].kwargs["msg"] # ""
    /\ LET results == calls[1].kwargs["results"]
       IN /\ DOMAIN results = {"collection", DbTree(params.database)}
          /\ results["collection"] = TRUE
          /\ DOMAIN results[DbTree(params.database)] = {params.key}
          /\ results[DbTree(params.database)][params.key] = None

C3_Witness ==
  /\ Done /\ Returned(2) /\ ~fail_key /\ database = "services"
  /\ key = Some(<<"a">>) /\ out = <<"a", ":", "a">> /\ split = Some(<<":">>)
  /\ OneCall("exit_json")

\* C4: after exit code 0 the getent_<database> mapping of the success payload
\* has as keys exactly the first fields of the stdout lines, each mapped to the
\* remaining fields, in order, of the last line with that first field; with a
\* separator set, key and fields joined by it give that line back; the payload
\* carries collection = True.
RECURSIVE Join(_, _)
Join(fields, sep) ==
  IF Len(fields) = 1 THEN fields[1]
  ELSE fields[1] \o sep \o Join(Tail(fields), sep)

C4_ParsedMapping ==
  (Done /\ Returned(0) /\ OneCall("exit_json")) =>
    LET payload == calls[1].kwargs
        tree == payload[DbTree(params.database)]
        lines == splitlines(out)
        fields(i) == IF split = None THEN SplitWs(lines[i]) ELSE SplitSep(lines[i], Val(split))
        lastOf(i) == \A j \in (i + 1)..Len(lines) : fields(j)[1] # fields(i)[1]
    IN /\ DOMAIN payload = {"collection", DbTree(params.database)}
       /\ payload["collection"] = TRUE
       /\ DOMAIN tree = {Some(fields(i)[1]) : i \in 1..Len(lines)}
       /\ \A i \in 1..Len(lines) :
            lastOf(i) =>
              /\ tree[Some(fields(i)[1])] = Some(Tail(fields(i)))
              /\ split # None =>
                   Join(<< fields(i)[1] >> \o Val(tree[Some(fields(i)[1])]), Val(split)) = lines[i]

C4_Witness ==
  /\ Done /\ Returned(0) /\ OneCall("exit_json")
  /\ out = <<"\n", ":">> /\ split = Some(<<":">>)
  /\ calls[1].kwargs[DbTree(database)] = (Some(<< >>) :> Some(<< << >> >>))

\* C5: the separator the lines are split on is the explicit split when one
\* was given (for every database), ':' when none was given and the database
\* is passwd, shadow, group or gshadow, and unset (whitespace splitting) when
\* none was given and the database is any other.
EffectiveSeparator ==
  IF params.split # None THEN params.split
  ELSE IF params.database \in {"passwd", "shadow", "group", "gshadow"} THEN Some(<<":">>)
  ELSE None

C5_EffectiveSeparator ==
  /\ (pc = "run_command" \/ spawned # << >>) => split = EffectiveSeparator
  /\ (Done /\ Returned(0) /\ OneCall("exit_json")) =>
       calls[1].kwargs[DbTree(params.database)] =
         ParseLines(splitlines(out), EffectiveSeparator, EmptyDict).tree

C5_Witness ==
  /\ Done /\ Returned(0) /\ OneCall("exit_json")
  /\ params.database = "hosts" /\ params.split = None /\ split = None
  /\ out = <<"a", " ", ":">>
  /\ calls[1].kwargs["getent_hosts"] = (Some(<<"a">>) :> Some(<< <<":">> >>))

\* C6: when the search path does not resolve getent, the invocation ends with
\* the executable-not-found fail_json and run_command is never called: no
\* process is spawned, no exit code is read, nothing is parsed.
C6_MissingBinary ==
  on_path = None =>
    /\ spawned = << >>
    /\ rc = None /\ e = None /\ uncaught = None /\ cmd = << >>
    /\ pc \in {"get_bin_path", "done"}
    /\ Done => calls = << Call("fail_json", "msg" :> NotFoundMsg) >>

C6_Witness ==
  /\ on_path = None /\ Done
  /\ calls = << Call("fail_json", "msg" :> NotFoundMsg) >>
  /\ spawned = << >>

\* C7: when run_command raises, the invocation ends with one fail_json whose
\* msg is the text of the exception and which carries the trace; no exit code
\* is read, nothing is parsed and no exit_json is called.
C7_SpawnFailure ==
  e # None =>
    /\ Done
    /\ OneCall("fail_json")
    /\ DOMAIN calls[1].kwargs = {"msg", "exception"}
    /\ calls[1].kwargs["msg"] = Val(e).text
    /\ calls[1].kwargs["exception"] # ""
    /\ rc = None /\ out = << >> /\ uncaught = None
    /\ Len(spawned) = 1

C7_Witness ==
  /\ Done /\ e # None
  /\ calls[1].kwargs["msg"] = "[Errno 13] Permission denied"
  /\ rc = None

\* C8: exit code 0 always ends with the success payload, never with a failure
\* or an uncaught error, whatever the stdout and the separator.
C8_ExitZeroSucceeds ==
  (Done /\ Returned(0)) => (OneCall("exit_json") /\ uncaught = None)

\* C9: every finished invocation has made exactly one of exit_json and
\* fail_json, once, and has called run_command at most once.
C9_SingleOutcome ==
  Done => (Len(calls) = 1 /\ uncaught = None /\ Len(spawned) <= 1)

====
